---- MODULE Spec2Model ----
(***************************************************************************)
(* cargo-shuttle: the command dispatcher Shuttle::run, the project root    *)
(* lookup (find_root_directory / load_project), the local run orchestrator *)
(* (local_run: build relay, secrets, loader, service handle, release) and  *)
(* the deploy outcome classifier (deploy).                                 *)
(***************************************************************************)
EXTENDS Integers, Sequences, FiniteSets, TLC

\* ------------------------------------------------------------------ bounds

\* Depth of the deepest directory of the modelled file system.
MaxDepth == 2
\* Number of build messages the build step may send on the relay channel.
MaxMsgs == 2
\* Number of items the remote build-log stream may carry.
MaxStream == 2
\* Number of distinct deployment ids the remote platform may report.
MaxIds == 2

\* -------------------------------------------------------------- constants

\* crossbeam_channel::bounded(0): the capacity of the relay channel.
Capacity == 0

\* ------------------------------------------------------------- value sets

None == "None"

\* Option<T>: None, and Some(value).
NoneOf == [some |-> FALSE]

Some(v) == [some |-> TRUE, value |-> v]

\* A local of the run that has not been assigned yet.
Unset == [unset |-> TRUE]

\* Command (args.rs), as matched in Shuttle::run.
ProjectCommands ==
    { "Deploy", "DeploymentList", "DeploymentStatus", "ProjectNew",
      "ProjectStatus", "ProjectRm", "Delete", "Secrets", "Status", "Logs",
      "Run" }

Commands == ProjectCommands \cup { "Init", "Auth", "Login" }

\* RunArgs.port values tried.
Ports == { 8000, 8001 }

NoPort == "NoPort"

\* A directory is the sequence of its path components; the root is << >>.
\* The directories modelled are the deepest one and its ancestors.
DeepPath == [i \in 1..MaxDepth |-> i]

Dirs == { SubSeq(DeepPath, 1, k) : k \in 0..MaxDepth }

\* cargo_metadata::Message variants as the printer loop distinguishes them.
Messages == { "TextLine", "CompilerRendered", "CompilerBare", "Other" }

\* Contents of Secrets.toml: names and TOML values.
SecretKeys == { "A" }

SecretValues == { "str1", "int7" }

StringValues == { "str1" }

\* What read_to_string / parse meet at <working_directory>/Secrets.toml.
SecretsFiles ==
    { [kind |-> "absent"], [kind |-> "unreadable"], [kind |-> "garbage"] }
    \cup { [kind |-> "toml", table |-> t] :
             t \in UNION { [K -> SecretValues] : K \in SUBSET SecretKeys } }

EmptyMap == [k \in {} |-> "str1"]

DeploymentIds == 1..MaxIds

\* deployment::State
States == { "Queued", "Building", "Running", "Crashed" }

\* ServiceSummary.deployment: None or Some {id, state}.
Summaries ==
    { [deployment |-> NoneOf] }
    \cup { [deployment |-> Some([id |-> i, state |-> s])] :
             i \in DeploymentIds, s \in States }

\* Items of the build-log websocket stream.
StreamItems == { "Text", "Binary", "Error" }

RECURSIVE SeqsUpTo(_, _)
SeqsUpTo(S, n) ==
    IF n = 0 THEN { << >> }
    ELSE LET shorter == SeqsUpTo(S, n - 1)
         IN  shorter \cup { Append(s, x) : s \in shorter, x \in S }

\* ------------------------------------------------------------------ state

VARIABLES
    pc,                 \* position of the task running Shuttle::run
    cmd,                \* args.cmd
    port,               \* run_args.port
    manifests,          \* directories that contain a Cargo.toml
    arg_directory,      \* project_args.working_directory as given
    working_directory,  \* project_args.working_directory
    result,             \* what Shuttle::run returned
    handler,            \* what the dispatched handler returned
    failed,             \* the call of the handler that returned an error
    trace,              \* calls made to collaborators, in order
    out,                \* standard output
    printer,            \* the spawned printer task
    build,              \* build_crate
    slot,               \* messages in the relay channel, oldest first
    sent,               \* messages the build step sent
    received,           \* messages rx.recv() returned to the printer
    secrets_file,       \* what local_run found at Secrets.toml
    secrets,            \* the resolved secret mapping
    factory,            \* LocalFactory
    addr,               \* SocketAddr
    load_args,          \* arguments loader.load was called with
    service,            \* the task behind the service handle
    so,                 \* the loaded artifact
    deployment,         \* id of the deployment client.deploy returned
    stream,             \* items the build-log stream has yet to yield
    stream_read,        \* items stream.next() has yielded to deploy
    summary             \* ServiceSummary fetched by deploy

run_vars == << pc, cmd, port, result, handler, failed, trace, out >>

project_vars == << manifests, arg_directory, working_directory >>

relay_vars == << printer, build, slot, sent, received >>

local_vars == << secrets_file, secrets, factory, addr, load_args, service, so >>

deploy_vars == << deployment, stream, stream_read, summary >>

vars == << run_vars, project_vars, relay_vars, local_vars, deploy_vars >>

\* ------------------------------------------------------------------- Init

Init ==
    /\ pc = "run"
    /\ cmd \in Commands
    /\ port \in (IF cmd = "Run" THEN Ports ELSE { NoPort })
    /\ manifests \in SUBSET Dirs
    /\ arg_directory \in Dirs
    /\ working_directory = arg_directory
    /\ result = None
    /\ handler = None
    /\ failed = None
    /\ trace = << >>
    /\ out = << >>
    /\ printer = "unspawned"
    /\ build = "idle"
    /\ slot = << >>
    /\ sent = << >>
    /\ received = << >>
    /\ secrets_file = Unset
    /\ secrets = Unset
    /\ factory = Unset
    /\ addr = Unset
    /\ load_args = Unset
    /\ service = "none"
    /\ so = "none"
    /\ deployment = NoneOf
    /\ stream = << >>
    /\ stream_read = << >>
    /\ summary = Unset

\* ---------------------------------------------- project root (lib.rs 107-124)

\* Path::ancestors: the path itself first, then each parent up to the root.
ancestors(dir) ==
    [i \in 1..(Len(dir) + 1) |-> SubSeq(dir, 1, Len(dir) + 1 - i)]

\* The mutant searches from the root downwards.
find_root_directory_farthest(dir, cargo) ==
    LET a == ancestors(dir)
        hits == { i \in DOMAIN a : a[i] \in cargo }
    IN  IF hits = {} THEN NoneOf
        ELSE Some(a[CHOOSE i \in hits : \A j \in hits : j <= i])

\* Shuttle::find_root_directory: the first ancestor whose Cargo.toml exists.
find_root_directory(dir, cargo) ==
    LET a == ancestors(dir)
        hits == { i \in DOMAIN a : a[i] \in cargo }
    IN  IF hits = {} THEN NoneOf
        ELSE Some(a[CHOOSE i \in hits : \A j \in hits : i <= j])

\* Shuttle::load_project, with the outcome of ctx.load_local given.
load_project(local_ok) ==
    LET root_directory_path == find_root_directory(working_directory, manifests)
    IN  IF root_directory_path.some
        THEN /\ working_directory' = root_directory_path.value
             /\ trace' = Append(trace, "load_local")
             /\ IF local_ok
                THEN /\ pc' = "client"
                     /\ result' = None
                ELSE /\ pc' = "done"
                     /\ result' = "Err"
        ELSE /\ working_directory' = working_directory
             /\ trace' = trace
             /\ pc' = "done"
             /\ result' = "Err"

\* Shuttle::run, lines 54-66: load the project for the commands that need one.
run_load_project ==
    /\ pc = "run"
    /\ IF cmd \in ProjectCommands
       THEN \E local_ok \in BOOLEAN : load_project(local_ok)
       ELSE /\ pc' = "client"
            /\ UNCHANGED << working_directory, trace, result >>
    /\ UNCHANGED << cmd, port, failed, handler, out, manifests, arg_directory,
                    relay_vars, local_vars, deploy_vars >>

\* Shuttle::run, lines 68-71: the client and its api key (ctx.api_key()?).
run_client ==
    /\ pc = "client"
    /\ \E key_ok \in BOOLEAN :
         IF key_ok
         THEN pc' = "dispatch" /\ result' = None
         ELSE pc' = "done" /\ result' = "Err"
    /\ UNCHANGED << cmd, port, failed, handler, trace, out, project_vars, relay_vars,
                    local_vars, deploy_vars >>

\* Shuttle::run, lines 73-92: the match on args.cmd.  Deploy and Run have
\* their handlers modelled below; the other handlers are calls to the client
\* or to init, and either succeed or fail.
run_dispatch ==
    /\ pc = "dispatch"
    /\ IF cmd = "Deploy"
       THEN pc' = "deploy" /\ handler' = None
       ELSE IF cmd = "Run"
       THEN pc' = "local_run" /\ handler' = None
       ELSE /\ pc' = "return"
            /\ handler' \in { "Unit", "Err" }
    /\ UNCHANGED << cmd, port, failed, result, trace, out, project_vars, relay_vars,
                    local_vars, deploy_vars >>

\* The mutant loses the handler's error.
run_outcome_swallow(c, h) ==
    IF c = "Deploy" THEN h ELSE "Ok"

\* Shuttle::run, lines 74-76 and 93: deploy's result is returned as it is,
\* every other handler's Ok(()) is mapped to CommandOutcome::Ok.
run_outcome(c, h) ==
    IF c = "Deploy" THEN h
    ELSE IF h = "Err" THEN "Err" ELSE "Ok"

run_return ==
    /\ pc = "return"
    /\ result' = run_outcome(cmd, handler)
    /\ pc' = "done"
    /\ UNCHANGED << cmd, port, failed, handler, trace, out, project_vars, relay_vars,
                    local_vars, deploy_vars >>

\* --------------------------------------------- local_run (lib.rs 248-315)

\* Lines 251-264: the channel is created and the printer task is spawned.
local_run_spawn_printer ==
    /\ pc = "local_run"
    /\ printer' = "recv"
    /\ trace' = Append(trace, "spawn_printer")
    /\ pc' = "build"
    /\ UNCHANGED << cmd, port, failed, result, handler, out, project_vars, build, slot,
                    sent, received, local_vars, deploy_vars >>

\* Lines 266-274: "Building" is printed and build_crate is called with tx.
local_run_build ==
    /\ pc = "build"
    /\ out' = Append(out, "Building")
    /\ build' = "running"
    /\ trace' = Append(trace, "build_crate")
    /\ pc' = "build_await"
    /\ UNCHANGED << cmd, port, failed, result, handler, project_vars, printer, slot,
                    sent, received, local_vars, deploy_vars >>

\* build_crate sends a message.  The channel holds the messages buffered and,
\* beyond its capacity, the one whose send is blocked until the receiver takes
\* a message; with capacity 0 every send is such a hand-off.  A send to a
\* channel whose receiver is gone returns an error and delivers nothing.
build_send(m) ==
    /\ build = "running"
    /\ Len(slot) <= Capacity
    /\ Len(sent) < MaxMsgs
    /\ slot' = (IF printer = "done" THEN slot ELSE Append(slot, m))
    /\ sent' = Append(sent, m)
    /\ UNCHANGED << run_vars, project_vars, printer, build, received,
                    local_vars, deploy_vars >>

\* build_crate ends, with the artifact path or with an error; tx is dropped.
build_finish(ok) ==
    /\ build = "running"
    /\ Len(slot) <= Capacity
    /\ build' = (IF ok THEN "ok" ELSE "err")
    /\ UNCHANGED << run_vars, project_vars, printer, slot, sent, received,
                    local_vars, deploy_vars >>

\* Lines 254-262: what the printer prints for a message.
rendering(m) ==
    IF m = "TextLine" THEN << "line" >>
    ELSE IF m = "CompilerRendered" THEN << "rendered" >>
    ELSE << >>

\* The mutant reads the offered message without taking it off the channel.
printer_recv_peek ==
    /\ printer = "recv"
    /\ slot # << >>
    /\ received' = Append(received, Head(slot))
    /\ out' = out \o rendering(Head(slot))
    /\ UNCHANGED << pc, cmd, port, failed, result, handler, trace, project_vars,
                    printer, build, slot, sent, local_vars, deploy_vars >>

\* Lines 253-262: rx.recv() returns Ok(message) and the message is printed.
printer_recv ==
    /\ printer = "recv"
    /\ slot # << >>
    /\ received' = Append(received, Head(slot))
    /\ slot' = Tail(slot)
    /\ out' = out \o rendering(Head(slot))
    /\ UNCHANGED << pc, cmd, port, failed, result, handler, trace, project_vars,
                    printer, build, sent, local_vars, deploy_vars >>

\* The mutant polls: it ends the loop as soon as the channel is empty.
printer_exit_early ==
    /\ printer = "recv"
    /\ slot = << >>
    /\ printer' = "done"
    /\ UNCHANGED << run_vars, project_vars, build, slot, sent, received,
                    local_vars, deploy_vars >>

\* The mutant has the caller hold a clone of tx until local_run returns.
printer_exit_tx_held ==
    /\ printer = "recv"
    /\ build \in { "ok", "err" }
    /\ pc \in { "return", "done" }
    /\ slot = << >>
    /\ printer' = "done"
    /\ UNCHANGED << run_vars, project_vars, build, slot, sent, received,
                    local_vars, deploy_vars >>

\* Line 253: rx.recv() returns Err once every sender is dropped and nothing
\* is pending; the loop and the task end.
printer_exit ==
    /\ printer = "recv"
    /\ build \in { "ok", "err" }
    /\ slot = << >>
    /\ printer' = "done"
    /\ UNCHANGED << run_vars, project_vars, build, slot, sent, received,
                    local_vars, deploy_vars >>

\* The mutant goes on after a failed build.
local_run_build_await_ignore ==
    /\ pc = "build_await"
    /\ build \in { "ok", "err" }
    /\ pc' = "secrets"
    /\ UNCHANGED << cmd, port, failed, result, handler, trace, out, project_vars,
                    relay_vars, local_vars, deploy_vars >>

\* Line 274: build_crate(..).await? returns so_path or the build's error.
local_run_build_await ==
    /\ pc = "build_await"
    /\ build \in { "ok", "err" }
    /\ IF build = "ok"
       THEN pc' = "secrets" /\ handler' = handler /\ failed' = failed
       ELSE pc' = "return" /\ handler' = "Err" /\ failed' = "build_crate"
    /\ UNCHANGED << cmd, port, result, trace, out, project_vars, relay_vars,
                    local_vars, deploy_vars >>

\* read_to_string: Ok for a file that exists and holds text.
readable(f) == f.kind \in { "garbage", "toml" }

\* str::parse::<toml::Value>: Ok for TOML text.
parses(f) == f.kind = "toml"

\* Value::try_into::<BTreeMap<String, String>>: Ok when every value of the
\* table is a string.
flat(f) == \A k \in DOMAIN f.table : f.table[k] \in StringValues

\* Result<T>: Err, and Ok(value).
ErrOf == [ok |-> FALSE]

Ok(v) == [ok |-> TRUE, value |-> v]

\* The mutant returns the read error: read_to_string(secrets_path)?
resolve_secrets_strict(f) ==
    IF readable(f)
    THEN IF parses(f) /\ flat(f) THEN Ok(f.table) ELSE ErrOf
    ELSE ErrOf

\* Lines 279-290: the secrets, or the error `?` returns at line 282.
resolve_secrets(f) ==
    IF readable(f)
    THEN IF parses(f) /\ flat(f) THEN Ok(f.table) ELSE ErrOf
    ELSE Ok(EmptyMap)

local_run_secrets ==
    /\ pc = "secrets"
    /\ \E f \in SecretsFiles :
         /\ secrets_file' = f
         /\ trace' = Append(trace, "read_secrets")
         /\ IF ~resolve_secrets(f).ok
            THEN /\ secrets' = secrets
                 /\ handler' = "Err" /\ failed' = "read_secrets"
                 /\ pc' = "return"
            ELSE /\ secrets' = resolve_secrets(f).value
                 /\ handler' = handler /\ failed' = failed
                 /\ pc' = "from_so_file"
    /\ UNCHANGED << cmd, port, result, out, project_vars, relay_vars, factory,
                    addr, load_args, service, so, deploy_vars >>

\* Line 292: Loader::from_so_file(so_path)?
local_run_from_so_file ==
    /\ pc = "from_so_file"
    /\ trace' = Append(trace, "from_so_file")
    /\ \E ok \in BOOLEAN :
         IF ok
         THEN pc' = "factory" /\ handler' = handler /\ failed' = failed
         ELSE pc' = "return" /\ handler' = "Err" /\ failed' = "from_so_file"
    /\ UNCHANGED << cmd, port, result, out, project_vars, relay_vars,
                    local_vars, deploy_vars >>

\* The mutant goes on with a factory after LocalFactory::new has failed.
local_run_factory_lenient ==
    /\ pc = "factory"
    /\ trace' = Append(trace, "LocalFactory::new")
    /\ factory' = [secrets |-> secrets]
    /\ pc' = "addr"
    /\ handler' = handler
    /\ \E ok \in BOOLEAN :
         failed' = (IF ok THEN failed ELSE "LocalFactory::new")
    /\ UNCHANGED << cmd, port, result, out, project_vars, relay_vars,
                    secrets_file, secrets, addr, load_args, service, so,
                    deploy_vars >>

\* Line 294: LocalFactory::new(project_name, secrets)?
local_run_factory ==
    /\ pc = "factory"
    /\ trace' = Append(trace, "LocalFactory::new")
    /\ \E ok \in BOOLEAN :
         IF ok
         THEN /\ factory' = [secrets |-> secrets]
              /\ pc' = "addr"
              /\ handler' = handler /\ failed' = failed
         ELSE /\ factory' = factory
              /\ pc' = "return"
              /\ handler' = "Err" /\ failed' = "LocalFactory::new"
    /\ UNCHANGED << cmd, port, result, out, project_vars, relay_vars,
                    secrets_file, secrets, addr, load_args, service, so,
                    deploy_vars >>

\* Lines 295-303: the bind address is localhost and the port of the
\* arguments; "Starting" is printed.
local_run_addr ==
    /\ pc = "addr"
    /\ addr' = [ip |-> "LOCALHOST", port |-> port]
    /\ trace' = Append(trace, "SocketAddr::new")
    /\ out' = Append(out, "Starting")
    /\ pc' = "load"
    /\ UNCHANGED << cmd, port, failed, result, handler, project_vars, relay_vars,
                    secrets_file, secrets, factory, load_args, service, so,
                    deploy_vars >>

\* The mutant loads before the address is there and binds a default one.
local_run_load_unbound ==
    /\ pc = "addr"
    /\ trace' = Append(trace, "load")
    /\ load_args' = [factory |-> factory, addr |-> addr]
    /\ service' = "running"
    /\ so' = "loaded"
    /\ pc' = "handle"
    /\ UNCHANGED << cmd, port, failed, result, handler, out, project_vars, relay_vars,
                    secrets_file, secrets, factory, addr, deploy_vars >>

\* Lines 304-305: loader.load(&mut factory, addr, logger).await? gives the
\* service handle and the loaded artifact, or fails.
local_run_load ==
    /\ pc = "load"
    /\ trace' = Append(trace, "load")
    /\ load_args' = [factory |-> factory, addr |-> addr]
    /\ \E ok \in BOOLEAN :
         IF ok
         THEN /\ service' = "running"
              /\ so' = "loaded"
              /\ pc' = "handle"
              /\ handler' = handler /\ failed' = failed
         ELSE /\ service' = service
              /\ so' = so
              /\ pc' = "return"
              /\ handler' = "Err" /\ failed' = "load"
    /\ UNCHANGED << cmd, port, result, out, project_vars, relay_vars,
                    secrets_file, secrets, factory, addr, deploy_vars >>

\* The task behind the handle ends: the service returned Ok, the service
\* returned an error, or the task itself failed (JoinError).
service_resolve(how) ==
    /\ service = "running"
    /\ service' = how
    /\ UNCHANGED << run_vars, project_vars, relay_vars, secrets_file, secrets,
                    factory, addr, load_args, so, deploy_vars >>

\* The mutant does not wait for the handle.
local_run_handle_nowait ==
    /\ pc = "handle"
    /\ trace' = Append(trace, "handle.await")
    /\ pc' = "close"
    /\ UNCHANGED << cmd, port, failed, result, handler, out, project_vars, relay_vars,
                    local_vars, deploy_vars >>

\* The mutant has one `?`: it returns the task's failure and drops the
\* service's own error.
local_run_handle_single ==
    /\ pc = "handle"
    /\ service \in { "ok", "service_err", "join_err" }
    /\ trace' = Append(trace, "handle.await")
    /\ IF service # "join_err"
       THEN pc' = "close" /\ handler' = handler /\ failed' = failed
       ELSE pc' = "return" /\ handler' = "Err" /\ failed' = "handle.await"
    /\ UNCHANGED << cmd, port, result, out, project_vars, relay_vars,
                    local_vars, deploy_vars >>

\* Line 307: handle.await?? returns once the handle has resolved, and
\* returns the error of either level.
local_run_handle ==
    /\ pc = "handle"
    /\ service \in { "ok", "service_err", "join_err" }
    /\ trace' = Append(trace, "handle.await")
    /\ IF service = "ok"
       THEN pc' = "close" /\ handler' = handler /\ failed' = failed
       ELSE pc' = "return" /\ handler' = "Err" /\ failed' = "handle.await"
    /\ UNCHANGED << cmd, port, result, out, project_vars, relay_vars,
                    local_vars, deploy_vars >>

\* Lines 309-314: the closing task is spawned and local_run returns Ok(()).
local_run_close ==
    /\ pc = "close"
    /\ so' = "closing"
    /\ handler' = "Unit"
    /\ pc' = "return"
    /\ UNCHANGED << cmd, port, failed, result, trace, out, project_vars, relay_vars,
                    secrets_file, secrets, factory, addr, load_args, service,
                    deploy_vars >>

\* Lines 310-311: the spawned task calls so.close().
so_close ==
    /\ so = "closing"
    /\ so' = "closed"
    /\ trace' = Append(trace, "close")
    /\ UNCHANGED << pc, cmd, port, failed, result, handler, out, project_vars,
                    relay_vars, secrets_file, secrets, factory, addr,
                    load_args, service, deploy_vars >>

\* ------------------------------------------------ deploy (lib.rs 317-362)

\* Lines 318-320: run_cargo_package(..).context(..)?
deploy_package ==
    /\ pc = "deploy"
    /\ trace' = Append(trace, "run_cargo_package")
    /\ \E ok \in BOOLEAN :
         IF ok
         THEN pc' = "deploy_submit" /\ handler' = handler /\ failed' = failed
         ELSE pc' = "return" /\ handler' = "Err" /\ failed' = "run_cargo_package"
    /\ UNCHANGED << cmd, port, result, out, project_vars, relay_vars,
                    local_vars, deploy_vars >>

\* Lines 322-327: client.deploy(..).await? and the print of its answer.
deploy_submit ==
    /\ pc = "deploy_submit"
    /\ trace' = Append(trace, "client.deploy")
    /\ \/ \E id \in DeploymentIds :
            /\ deployment' = Some(id)
            /\ out' = Append(out, "deployment")
            /\ pc' = "deploy_stream"
            /\ handler' = handler /\ failed' = failed
       \/ /\ deployment' = deployment
          /\ out' = out
          /\ pc' = "return"
          /\ handler' = "Err" /\ failed' = "client.deploy"
    /\ UNCHANGED << cmd, port, result, project_vars, relay_vars, local_vars,
                    stream, stream_read, summary >>

\* The mutant goes on to the summary when the stream cannot be opened.
deploy_stream_lenient ==
    /\ pc = "deploy_stream"
    /\ trace' = Append(trace, "get_build_logs_ws")
    /\ \/ \E items \in SeqsUpTo(StreamItems, MaxStream) :
            /\ stream' = items
            /\ pc' = "deploy_logs"
            /\ handler' = handler /\ failed' = failed
       \/ /\ stream' = stream
          /\ pc' = "deploy_summary"
          /\ handler' = handler /\ failed' = "get_build_logs_ws"
    /\ UNCHANGED << cmd, port, result, out, project_vars, relay_vars,
                    local_vars, deployment, stream_read, summary >>

\* Lines 329-331: client.get_build_logs_ws(..).await?; the stream holds what
\* the remote side sends before it closes.
deploy_stream ==
    /\ pc = "deploy_stream"
    /\ trace' = Append(trace, "get_build_logs_ws")
    /\ \/ \E items \in SeqsUpTo(StreamItems, MaxStream) :
            /\ stream' = items
            /\ pc' = "deploy_logs"
            /\ handler' = handler /\ failed' = failed
       \/ /\ stream' = stream
          /\ pc' = "return"
          /\ handler' = "Err" /\ failed' = "get_build_logs_ws"
    /\ UNCHANGED << cmd, port, result, out, project_vars, relay_vars,
                    local_vars, deployment, stream_read, summary >>

\* The mutant leaves the loop at the first message that is not text.
deploy_logs_text_only ==
    /\ pc = "deploy_logs"
    /\ IF stream = << >>
       THEN /\ pc' = "deploy_summary"
            /\ UNCHANGED << stream, stream_read, out >>
       ELSE /\ stream' = Tail(stream)
            /\ stream_read' = Append(stream_read, Head(stream))
            /\ out' = (IF Head(stream) = "Text" THEN Append(out, "log") ELSE out)
            /\ pc' = (IF Head(stream) # "Text" THEN "deploy_summary"
                      ELSE "deploy_logs")
    /\ UNCHANGED << cmd, port, failed, result, handler, trace, project_vars,
                    relay_vars, local_vars, deployment, summary >>

\* The mutant skips error items and reads on to the end of the stream.
deploy_logs_skip_errors ==
    /\ pc = "deploy_logs"
    /\ IF stream = << >>
       THEN /\ pc' = "deploy_summary"
            /\ UNCHANGED << stream, stream_read, out >>
       ELSE /\ stream' = Tail(stream)
            /\ stream_read' = Append(stream_read, Head(stream))
            /\ out' = (IF Head(stream) = "Text" THEN Append(out, "log") ELSE out)
            /\ pc' = "deploy_logs"
    /\ UNCHANGED << cmd, port, failed, result, handler, trace, project_vars,
                    relay_vars, local_vars, deployment, summary >>

\* Lines 333-337: one turn of `while let Some(Ok(msg)) = stream.next().await`:
\* a text message is printed, another message is dropped, an error item or
\* the end of the stream ends the loop.
deploy_logs ==
    /\ pc = "deploy_logs"
    /\ IF stream = << >>
       THEN /\ pc' = "deploy_summary"
            /\ UNCHANGED << stream, stream_read, out >>
       ELSE /\ stream' = Tail(stream)
            /\ stream_read' = Append(stream_read, Head(stream))
            /\ out' = (IF Head(stream) = "Text" THEN Append(out, "log") ELSE out)
            /\ pc' = (IF Head(stream) = "Error" THEN "deploy_summary"
                      ELSE "deploy_logs")
    /\ UNCHANGED << cmd, port, failed, result, handler, trace, project_vars,
                    relay_vars, local_vars, deployment, summary >>

\* Line 339: client.get_service_summary(..).await?
deploy_summary ==
    /\ pc = "deploy_summary"
    /\ trace' = Append(trace, "get_service_summary")
    /\ \/ \E service_summary \in Summaries :
            /\ summary' = service_summary
            /\ pc' = "deploy_classify"
            /\ handler' = handler /\ failed' = failed
       \/ /\ summary' = summary
          /\ pc' = "return"
          /\ handler' = "Err" /\ failed' = "get_service_summary"
    /\ UNCHANGED << cmd, port, result, out, project_vars, relay_vars,
                    local_vars, deployment, stream, stream_read >>

\* The mutant decides by the state alone, whatever the id.
classify_by_state(service_summary, id) ==
    IF service_summary.deployment.some
    THEN [ prints |-> << "service" >>,
           outcome |-> IF service_summary.deployment.value.state = "Crashed"
                       THEN "DeploymentFailure" ELSE "Ok" ]
    ELSE [ prints |-> << "not_running" >>, outcome |-> "DeploymentFailure" ]

\* The mutant prints no summary for the submitted deployment.
classify_silent(service_summary, id) ==
    IF service_summary.deployment.some
    THEN IF service_summary.deployment.value.id # id
         THEN [ prints |-> << "kept_previous" >>,
                outcome |-> "DeploymentFailure" ]
         ELSE [ prints |-> << >>,
                outcome |-> IF service_summary.deployment.value.state = "Crashed"
                            THEN "DeploymentFailure" ELSE "Ok" ]
    ELSE [ prints |-> << "not_running" >>, outcome |-> "DeploymentFailure" ]

\* Lines 342-361: what deploy prints and returns for the summary fetched and
\* the id of the deployment submitted.
classify(service_summary, id) ==
    IF service_summary.deployment.some
    THEN IF service_summary.deployment.value.id # id
         THEN [ prints |-> << "kept_previous" >>,
                outcome |-> "DeploymentFailure" ]
         ELSE [ prints |-> << "service" >>,
                outcome |-> IF service_summary.deployment.value.state = "Crashed"
                            THEN "DeploymentFailure" ELSE "Ok" ]
    ELSE [ prints |-> << "not_running" >>, outcome |-> "DeploymentFailure" ]

deploy_classify ==
    /\ pc = "deploy_classify"
    /\ out' = out \o classify(summary, deployment.value).prints
    /\ handler' = classify(summary, deployment.value).outcome
    /\ pc' = "return"
    /\ UNCHANGED << cmd, port, failed, result, trace, project_vars, relay_vars,
                    local_vars, deploy_vars >>

Next ==
    \/ run_load_project
    \/ run_client
    \/ run_dispatch
    \/ run_return
    \/ local_run_spawn_printer
    \/ local_run_build
    \/ \E m \in Messages : build_send(m)
    \/ \E ok \in BOOLEAN : build_finish(ok)
    \/ printer_recv
    \/ printer_exit
    \/ local_run_build_await
    \/ local_run_secrets
    \/ local_run_from_so_file
    \/ local_run_factory
    \/ local_run_addr
    \/ local_run_load
    \/ \E how \in { "ok", "service_err", "join_err" } : service_resolve(how)
    \/ local_run_handle
    \/ local_run_close
    \/ so_close
    \/ deploy_package
    \/ deploy_submit
    \/ deploy_stream
    \/ deploy_logs
    \/ deploy_summary
    \/ deploy_classify

Spec == Init /\ [][Next]_vars

\* The task that runs Shuttle::run and the handler it awaits.
MainTask ==
    \/ run_load_project
    \/ run_client
    \/ run_dispatch
    \/ run_return
    \/ local_run_spawn_printer
    \/ local_run_build
    \/ local_run_build_await
    \/ local_run_secrets
    \/ local_run_from_so_file
    \/ local_run_factory
    \/ local_run_addr
    \/ local_run_load
    \/ local_run_handle
    \/ local_run_close
    \/ deploy_package
    \/ deploy_submit
    \/ deploy_stream
    \/ deploy_logs
    \/ deploy_summary
    \/ deploy_classify

\* The task spawned at line 252.
PrinterTask == printer_recv \/ printer_exit

\* `cargo shuttle run` in a project whose Cargo.toml is in the root directory.
InitLocalRun ==
    /\ Init
    /\ cmd = "Run"
    /\ manifests = { << >> }

\* The steps of a run of the Run command.
NextLocalRun ==
    \/ run_load_project
    \/ run_client
    \/ run_dispatch
    \/ run_return
    \/ local_run_spawn_printer
    \/ local_run_build
    \/ \E m \in Messages : build_send(m)
    \/ \E ok \in BOOLEAN : build_finish(ok)
    \/ printer_recv
    \/ printer_exit
    \/ local_run_build_await
    \/ local_run_secrets
    \/ local_run_from_so_file
    \/ local_run_factory
    \/ local_run_addr
    \/ local_run_load
    \/ \E how \in { "ok", "service_err", "join_err" } : service_resolve(how)
    \/ local_run_handle
    \/ local_run_close
    \/ so_close

\* The local run under the runtime's scheduling: every spawned task that can
\* take a step is run; the build and the service are under no such
\* obligation.
FairSpec ==
    /\ InitLocalRun
    /\ [][NextLocalRun]_vars
    /\ WF_vars(MainTask)
    /\ WF_vars(PrinterTask)
    /\ WF_vars(so_close)

\* ----------------------------------------------------------- properties

Events == { trace[i] : i \in DOMAIN trace }

Printed == { out[i] : i \in DOMAIN out }

IsPrefix(a, b) == Len(a) <= Len(b) /\ SubSeq(b, 1, Len(a)) = a

Resolved == service \in { "ok", "service_err", "join_err" }

\* C1: the loaded artifact's close is never invoked, nor its closing task
\* spawned, before the service handle returned by the same load has resolved
\* and the await of it has returned.
C1_CloseAfterResolved ==
    so \in { "closing", "closed" } => Resolved /\ "handle.await" \in Events

C1_Witness == so = "closed" /\ service = "ok" /\ Len(sent) > 0

\* C2: once loader.load has succeeded, the artifact's close is invoked however
\* the handle resolves; so when run has returned after a successful load the
\* close has been invoked or its task is spawned.
C2_ReleaseAfterLoad ==
    (pc = "done" /\ so # "none") => so \in { "closing", "closed" }

\* C3: when build_crate returns an error, local_run returns an error and
\* neither Loader::from_so_file, loader.load, the await of a handle nor the
\* close occurs.
C3_BuildFailureAborts ==
    build = "err" =>
        /\ pc \in { "build_await", "return", "done" }
        /\ pc # "build_await" => handler = "Err"
        /\ pc = "done" => result = "Err"
        /\ Events \cap { "read_secrets", "from_so_file", "LocalFactory::new",
                         "load", "handle.await", "close" } = {}
        /\ service = "none"
        /\ so = "none"

C3_Witness == build = "err" /\ pc = "done" /\ Len(received) > 0

\* C4: deploy returns a value, not an error, for every summary fetched:
\* DeploymentFailure without a current deployment, DeploymentFailure when the
\* current deployment's id is not the submitted one whatever its state,
\* DeploymentFailure when the ids match and the state is Crashed, and Ok when
\* the ids match and the state is any other.
C4_DeployClassification ==
    (cmd = "Deploy" /\ pc \in { "return", "done" } /\ summary # Unset) =>
        LET d == summary.deployment
        IN  /\ handler \in { "Ok", "DeploymentFailure" }
            /\ pc = "done" => result = handler
            /\ ~d.some => handler = "DeploymentFailure"
            /\ (d.some /\ d.value.id # deployment.value)
                  => handler = "DeploymentFailure"
            /\ (d.some /\ d.value.id = deployment.value
                       /\ d.value.state = "Crashed")
                  => handler = "DeploymentFailure"
            /\ (d.some /\ d.value.id = deployment.value
                       /\ d.value.state # "Crashed")
                  => handler = "Ok"

C4_Witness ==
    /\ cmd = "Deploy"
    /\ pc = "done"
    /\ summary # Unset
    /\ summary.deployment.some
    /\ summary.deployment.value.id # deployment.value
    /\ summary.deployment.value.state = "Running"
    /\ result = "DeploymentFailure"

\* C5: the printer receives the build messages in exactly the order they were
\* sent, and receives none once the producer side of the channel is closed.
C5_RelayOrder ==
    /\ [](IsPrefix(received, sent))
    /\ [][(build \in { "ok", "err" }) => (received' = received)]_vars

C5_Witness ==
    /\ printer = "done"
    /\ received = sent
    /\ Len(received) >= 2
    /\ received[1] # received[2]

\* C6 as stated: whenever deploy returns DeploymentFailure, the fetched
\* service summary has been printed.
C6_SummaryBeforeFailure ==
    (cmd = "Deploy" /\ pc \in { "return", "done" }
       /\ handler = "DeploymentFailure")
        => "service" \in Printed

\* C6 amended: when deploy returns DeploymentFailure, the summary was printed
\* (the last thing printed) exactly when the current deployment is the
\* submitted one, whose state is then Crashed; without a current deployment
\* or with another id a fixed message is printed and the summary is not.
C6_SummaryBeforeCrashFailure ==
    (cmd = "Deploy" /\ pc \in { "return", "done" }
       /\ handler = "DeploymentFailure")
        => LET d == summary.deployment
           IN  IF d.some /\ d.value.id = deployment.value
               THEN /\ d.value.state = "Crashed"
                    /\ out[Len(out)] = "service"
               ELSE /\ "service" \notin Printed
                    /\ out[Len(out)] = (IF d.some THEN "kept_previous"
                                        ELSE "not_running")

C6_Witness ==
    /\ cmd = "Deploy"
    /\ pc = "done"
    /\ result = "DeploymentFailure"
    /\ "service" \in Printed

\* C7: run returns DeploymentFailure only for the Deploy command; for every
\* other command it returns Ok(CommandOutcome::Ok) when the handler succeeded
\* and an error when the handler failed.
C7_OutcomeByCommand ==
    pc = "done" =>
        /\ result = "DeploymentFailure" => cmd = "Deploy"
        /\ (cmd # "Deploy" /\ handler = "Unit") => result = "Ok"
        /\ (cmd # "Deploy" /\ handler = "Err") => result = "Err"

C7_Witness ==
    pc = "done" /\ cmd = "Status" /\ handler = "Err" /\ result = "Err"

\* The secrets file exists but does not parse as a flat string-to-string
\* mapping.
ExistsUnparsed(f) ==
    /\ f # Unset
    /\ f.kind # "absent"
    /\ ~(f.kind = "toml" /\ \A k \in DOMAIN f.table : f.table[k] \in StringValues)

\* C8: when the secrets file exists but fails to parse as a flat
\* string-to-string mapping, local_run returns an error and neither
\* Loader::from_so_file, the factory, loader.load, the await nor the close
\* occurs.
C8_SecretsParseFailureAborts ==
    ExistsUnparsed(secrets_file) =>
        /\ handler = "Err"
        /\ Events \cap { "from_so_file", "LocalFactory::new", "load",
                         "handle.await", "close" } = {}
        /\ so = "none"

\* Directories among dir and its ancestors that hold a Cargo.toml.
Roots(dir) == { d \in manifests : IsPrefix(d, dir) }

\* C9: load_project sets project_args.working_directory to the nearest of the
\* working directory and its ancestors that holds a Cargo.toml; without one
\* it returns an error, leaves the working directory as it was and does not
\* load the local configuration.
C9_LoadProjectRoot ==
    (cmd \in ProjectCommands /\ pc # "run") =>
        IF Roots(arg_directory) = {}
        THEN /\ working_directory = arg_directory
             /\ pc = "done"
             /\ result = "Err"
             /\ "load_local" \notin Events
        ELSE /\ working_directory \in Roots(arg_directory)
             /\ \A d \in Roots(arg_directory) : Len(d) <= Len(working_directory)
             /\ "load_local" \in Events

C9_Witness ==
    /\ cmd \in ProjectCommands
    /\ pc # "run"
    /\ Cardinality(Roots(arg_directory)) >= 2
    /\ working_directory # arg_directory
    /\ working_directory # << >>

LocalRunSteps ==
    << "spawn_printer", "build_crate", "read_secrets", "LocalFactory::new",
       "SocketAddr::new", "load", "handle.await", "close" >>

IsLocalRunStep(e) == \E i \in DOMAIN LocalRunSteps : LocalRunSteps[i] = e

\* C10: a local run that reaches the release has made its steps once each in
\* this order: printer started, build invoked and awaited, secrets resolved,
\* factory constructed, bind address computed, artifact loaded with that
\* factory and that address, handle awaited, artifact released; and a handle
\* is awaited only with the factory and the address constructed.
C10_StepOrder ==
    /\ so = "closed" =>
         /\ SelectSeq(trace, IsLocalRunStep) = LocalRunSteps
         /\ build = "ok"
         /\ load_args = [ factory |-> [secrets |-> secrets],
                          addr |-> [ip |-> "LOCALHOST", port |-> port] ]
    /\ "handle.await" \in Events => factory # Unset /\ addr # Unset

C10_Witness == so = "closed" /\ port = 8001 /\ DOMAIN secrets # {}

\* C11: the printer task is started before build_crate is invoked, and no
\* message the build step sends is lost: every message sent has been received
\* by the printer or is pending in the channel, and all of them have been
\* received when the build has returned.
C11_NoMessageLost ==
    /\ build # "idle" => printer # "unspawned"
    /\ "build_crate" \in Events =>
         /\ Len(trace) >= 2
         /\ \E i \in DOMAIN trace :
              trace[i] = "spawn_printer" /\ trace[i + 1] = "build_crate"
    /\ sent = received \o slot
    /\ build \in { "ok", "err" } => received = sent

C11_Witness ==
    /\ build = "ok"
    /\ pc = "build_await"
    /\ received = sent
    /\ Len(sent) >= 2
    /\ printer = "recv"

\* The build is blocked in a send that the printer cannot take.
MutuallyBlocked ==
    /\ build = "running"
    /\ Len(slot) > Capacity
    /\ ~ENABLED printer_recv

\* C12: under fair scheduling, once the build step has finished and tx is
\* dropped the printer loop terminates and the caller's await of the build
\* returns; and the build is never blocked in a send that the waiting printer
\* does not take.
C12_PrinterTerminates ==
    /\ (build \in { "ok", "err" }) ~> (printer = "done")
    /\ (pc = "build_await" /\ build \in { "ok", "err" }) ~> (pc # "build_await")
    /\ [](~MutuallyBlocked)

C12_Witness ==
    /\ printer = "done"
    /\ build = "err"
    /\ Len(received) > 0
    /\ pc = "done"

Count(e) == Cardinality({ i \in DOMAIN trace : trace[i] = e })

Last(q) == q[Len(q)]

\* C13 as stated: the service summary is fetched only after the build-log
\* stream has been consumed to its end, and exactly once.
C13_StreamDrainedOnce ==
    "get_service_summary" \in Events =>
        /\ stream = << >>
        /\ Count("get_service_summary") = 1

\* C13 amended: the stream is consumed until it ends or yields an error item;
\* the summary is fetched only after that, at most once, and exactly once in
\* a deploy that returns an outcome, which is decided from that snapshot.
C13_StreamThenOneFetch ==
    /\ Count("get_service_summary") <= 1
    /\ pc \in { "deploy_stream", "deploy_logs" }
          => "get_service_summary" \notin Events
    /\ "get_service_summary" \in Events =>
          \/ stream = << >>
          \/ stream_read # << >> /\ Last(stream_read) = "Error"
    /\ (cmd = "Deploy" /\ handler \in { "Ok", "DeploymentFailure" }) =>
          /\ Count("get_service_summary") = 1
          /\ summary # Unset
          /\ Last(trace) = "get_service_summary"

C13_Witness ==
    /\ cmd = "Deploy"
    /\ pc = "done"
    /\ result = "Ok"
    /\ Len(stream_read) >= 2
    /\ stream = << >>

\* C14: local_run returns Ok only after the service handle has resolved with
\* the task and the service both successful; when the handle resolves with a
\* failure of either level local_run returns an error; and it does not return
\* while the handle is unresolved.
C14_ReturnAfterHandle ==
    /\ (cmd = "Run" /\ handler = "Unit") =>
          service = "ok" /\ "handle.await" \in Events
    /\ (service \in { "service_err", "join_err" } /\ pc \in { "return", "done" }) =>
          /\ handler = "Err"
          /\ failed = "handle.await"
          /\ pc = "done" => result = "Err"
    /\ service = "running" => pc = "handle" /\ handler = None /\ result = None

C14_Witness ==
    /\ pc = "done"
    /\ service = "service_err"
    /\ result = "Err"

\* C15: when the secrets file is absent, the secrets resolve to the empty
\* mapping without an error, the run goes on to Loader::from_so_file, and the
\* factory it constructs and loads with holds the empty mapping.
C15_AbsentSecretsEmpty ==
    (secrets_file # Unset /\ secrets_file.kind = "absent") =>
        /\ secrets = EmptyMap
        /\ failed # "read_secrets"
        /\ pc = "from_so_file" \/ "from_so_file" \in Events
        /\ factory # Unset => factory.secrets = EmptyMap
        /\ load_args # Unset => load_args.factory.secrets = EmptyMap

C15_Witness ==
    /\ secrets_file # Unset
    /\ secrets_file.kind = "absent"
    /\ so = "loaded"
    /\ load_args.factory.secrets = EmptyMap

\* C17: an error item of the build-log stream ends the consumption at that
\* item: nothing is read after it, deploy does not return an error for it,
\* and deploy goes on to fetch the service summary and classify it.
C17_ErrorItemEndsLogs ==
    /\ \A i \in 1..(Len(stream_read) - 1) : stream_read[i] # "Error"
    /\ (stream_read # << >> /\ Last(stream_read) = "Error") =>
          /\ pc \in { "deploy_summary", "deploy_classify", "return", "done" }
          /\ failed \in { None, "get_service_summary" }
          /\ pc \in { "return", "done" } =>
                /\ "get_service_summary" \in Events
                /\ failed = None => handler \in { "Ok", "DeploymentFailure" }

C17_Witness ==
    /\ stream_read # << >>
    /\ Last(stream_read) = "Error"
    /\ stream # << >>
    /\ pc = "done"
    /\ result = "Ok"

DeploySteps ==
    << "run_cargo_package", "client.deploy", "get_build_logs_ws",
       "get_service_summary" >>

IsDeployStep(e) == \E i \in DOMAIN DeploySteps : DeploySteps[i] = e

\* C18: in deploy, when packaging, submitting the package, opening the
\* build-log stream or fetching the service summary fails, deploy returns an
\* error and not a CommandOutcome, and performs no step after the failing
\* one; the steps are made in that order.
C18_DeployFailureAborts ==
    /\ cmd = "Deploy" => IsPrefix(SelectSeq(trace, IsDeployStep), DeploySteps)
    /\ (cmd = "Deploy" /\ failed # None) =>
          /\ handler = "Err"
          /\ pc \in { "return", "done" }
          /\ pc = "done" => result = "Err"
          /\ Last(trace) = failed
          /\ summary = Unset
          /\ Printed \cap { "service", "kept_previous", "not_running" } = {}
          /\ failed \in { "run_cargo_package", "client.deploy" } =>
                deployment = NoneOf /\ "deployment" \notin Printed
          /\ failed # "get_service_summary" =>
                stream = << >> /\ stream_read = << >>

C18_Witness ==
    /\ cmd = "Deploy"
    /\ failed = "get_service_summary"
    /\ pc = "done"
    /\ result = "Err"
    /\ "log" \in Printed

\* C19: in a local run loader.load is invoked at most once and the
\* artifact's close at most once, the close only after loader.load succeeded;
\* a failure of Loader::from_so_file, of LocalFactory::new or of loader.load
\* ends the run with an error, without an artifact and without a close.
C19_OneLoadOneClose ==
    /\ Count("load") <= 1
    /\ Count("close") <= 1
    /\ (so \in { "closing", "closed" } \/ "close" \in Events) =>
          /\ Count("load") = 1
          /\ failed = None
          /\ service # "none"
    /\ failed \in { "from_so_file", "LocalFactory::new", "load" } =>
          /\ handler = "Err"
          /\ pc \in { "return", "done" }
          /\ pc = "done" => result = "Err"
          /\ Last(trace) = failed
          /\ service = "none"
          /\ so = "none"
          /\ "close" \notin Events

C19_Witness ==
    /\ failed = "load"
    /\ pc = "done"
    /\ result = "Err"
    /\ load_args # Unset

====
